---- MODULE Spec2Model ----
(***************************************************************************)
(* LedgerLens receipt pipeline (src/functions/main.py): the two triggers,  *)
(* process_receipt_extraction and _finalize_extraction, run as concurrent  *)
(* runs over one shared document store.                                    *)
(***************************************************************************)
EXTENDS Naturals, Integers, Sequences, FiniteSets, Bags, TLC

\* ------------------------------------------------------------------ bounds
\* Upload events (first deliveries and re-deliveries) in one behaviour.
MaxUploads == 2
\* Retry requests of the client (writes of status pending_retry).
MaxRetries == 1
\* Re-saves by the client of a document that waits for its retry.
MaxResaves == 1
\* Pipeline invocations in flight at once.
MaxInFlight == 2
\* Pipeline steps ahead of the error handler that raise in one behaviour.
MaxFaults == 1
\* Segments of an object path handed to the upload trigger.
MaxSegs == 4
\* Characters of a field handed to compute_receipt_hash.
MaxFieldLen == 3
\* Upload events delivered in the behaviours of SerialSpec.
MaxSerialUploads == 3

\* ----------------------------------------------------------------- strings
\* A string is a sequence of one-character strings.
LowerChar(c) ==
    CASE c = "J" -> "j" [] c = "P" -> "p" [] c = "G" -> "g" [] c = "E" -> "e"
      [] c = "N" -> "n" [] c = "W" -> "w" [] c = "B" -> "b" [] c = "R" -> "r"
      [] c = "A" -> "a" [] c = "C" -> "c" [] c = "M" -> "m" [] c = "X" -> "x"
      [] OTHER -> c

\* str.lower()
Lower(s) == [i \in 1..Len(s) |-> LowerChar(s[i])]

\* str.endswith(suffix)
EndsWith(s, suf) ==
    /\ Len(s) >= Len(suf)
    /\ SubSeq(s, Len(s) - Len(suf) + 1, Len(s)) = suf

\* str.startswith(prefix)
StartsWith(s, pre) ==
    /\ Len(s) >= Len(pre)
    /\ SubSeq(s, 1, Len(pre)) = pre

\* Positions of character c in s.
Positions(s, c) == {i \in 1..Len(s) : s[i] = c}

SetMax(S) == CHOOSE x \in S : \A y \in S : y <= x
SetMin(S) == CHOOSE x \in S : \A y \in S : x <= y

\* str.split("/"): the pieces between the slashes, empty pieces kept.
RECURSIVE Split(_)
Split(s) ==
    IF Positions(s, "/") = {} THEN <<s>>
    ELSE LET p == SetMin(Positions(s, "/"))
         IN  <<SubSeq(s, 1, p - 1)>> \o Split(SubSeq(s, p + 1, Len(s)))

\* str.rsplit(".", 1)[0]: what precedes the last dot, the whole string without one.
RSplitDotHead(s) ==
    IF Positions(s, ".") = {} THEN s
    ELSE SubSeq(s, 1, SetMax(Positions(s, ".")) - 1)

RECURSIVE Join(_, _)
Join(segs, sep) ==
    IF Len(segs) = 0 THEN <<>>
    ELSE IF Len(segs) = 1 THEN segs[1]
    ELSE segs[1] \o sep \o Join(Tail(segs), sep)

\* "receipts/" (line 232) and the image extensions (line 234).
PREFIX == <<"r", "e", "c", "e", "i", "p", "t", "s", "/">>
ImageSuffixes ==
    { <<".", "j", "p", "g">>, <<".", "j", "p", "e", "g">>,
      <<".", "p", "n", "g">>, <<".", "w", "e", "b", "p">> }

\* ------------------------------------------------------------ identifiers
B1 == <<"B", "1">>
B2 == <<"B", "2">>
R1 == <<"R", "1">>
R2 == <<"R", "2">>
Batches == {B1, B2}
ReceiptIds == {R1, R2}
\* The receipt documents of the model: batches/{b}/receipts/{r}.
DocIds == {[b |-> B1, r |-> R1], [b |-> B1, r |-> R2], [b |-> B2, r |-> R1]}
Doc(b, r) == [b |-> b, r |-> r]

\* The documents in ascending order of their path batches/{b}/receipts/{r}: the
\* order in which Firestore returns the results of a query that gives none.
DocOrder == <<Doc(B1, R1), Doc(B1, R2), Doc(B2, R1)>>
FirstByName(S) ==
    DocOrder[CHOOSE i \in 1..Len(DocOrder) :
                /\ DocOrder[i] \in S
                /\ \A j \in 1..Len(DocOrder) : DocOrder[j] \in S => i <= j]

\* The object path the client uploads a receipt to.
DocPath(d) == PREFIX \o d.b \o <<"/">> \o d.r \o <<".", "j", "p", "g">>

\* --------------------------------------------------------- upload dispatch
NoCall == [invoke |-> FALSE, batch_id |-> <<>>, receipt_id |-> <<>>]

\* on_receipt_upload, lines 228-241: the guards and the identifiers passed to
\* process_receipt_extraction.
UploadDispatch(file_path) ==
    IF Len(file_path) = 0 \/ ~StartsWith(file_path, PREFIX) THEN NoCall
    ELSE IF ~(\E suf \in ImageSuffixes : EndsWith(Lower(file_path), suf)) THEN NoCall
    ELSE LET parts == Split(file_path)
         IN  IF Len(parts) < 3 THEN NoCall
             ELSE [invoke |-> TRUE, batch_id |-> parts[2],
                   receipt_id |-> RSplitDotHead(parts[3])]

\* ------------------------------------------------------------ field sets
\* The characters str.strip() takes for whitespace.
WhiteSpace == {" ", "\t", "\n"}

\* str.strip(): leading and trailing whitespace removed.
RECURSIVE Strip(_)
Strip(s) ==
    IF Len(s) = 0 THEN s
    ELSE IF s[1] \in WhiteSpace THEN Strip(Tail(s))
    ELSE IF s[Len(s)] \in WhiteSpace THEN Strip(SubSeq(s, 1, Len(s) - 1))
    ELSE s

\* str.replace(" ", "")
RECURSIVE RemoveSpaces(_)
RemoveSpaces(s) ==
    IF Len(s) = 0 THEN s
    ELSE IF s[1] = " " THEN RemoveSpaces(Tail(s))
    ELSE <<s[1]>> \o RemoveSpaces(Tail(s))

\* norm, line 196: str(s).lower().strip().replace(" ", "")
norm(s) == RemoveSpaces(Strip(Lower(s)))

\* compute_receipt_hash: md5 of the four normalised fields joined by "|"; the
\* digest is kept as the string it is taken of (no collisions).
compute_receipt_hash(data) ==
    <<"m", "d", "5", ":">> \o norm(data.vendor) \o <<"|">> \o norm(data.total)
        \o <<"|">> \o norm(data.date) \o <<"|">> \o norm(data.invoice_number)

\* What the provider may return for an image (lines 142-151), as the strings
\* str() gives; the provider is not deterministic.
Out1 == [vendor |-> <<"A", "c">>, total |-> <<"1", ".", "5">>,
         date |-> <<>>, invoice_number |-> <<"7">>]
Out3 == [vendor |-> <<"A", "c">>, total |-> <<"2", ".", "0">>,
         date |-> <<>>, invoice_number |-> <<"7">>]
Outputs == {Out1, Out3}

\* The image bytes stored at an object path, and their sha-256 (line 292).
Images == {"imgA", "imgB"}
ImageHash(img) == <<"sha256", img>>

\* ---------------------------------------------------------------- documents
\* An optional field is the empty set or the set of its one value. g_path is
\* history, not a field of the document: the path ("fresh" or "reuse") of the
\* receipt's most recent finalization.
NoDoc ==
    [exists |-> FALSE, status |-> "none", extracted |-> FALSE,
     extractedData |-> {}, receipt_hash |-> {}, image_hash_sha256 |-> {},
     flag_duplicate |-> {}, duplicate_of |-> {}, error_message |-> {},
     processedAt |-> FALSE, g_path |-> "none"]

\* The extractedData map of a fresh extraction (lines 142-151, 343).
FreshData(out, is_duplicate) ==
    [fields |-> out, source |-> {}, flag_duplicate |-> {is_duplicate}]

\* Firestore's set(..., merge=True) on the nested map extractedData: the keys
\* given are written, the keys not given are kept.
MergeMap(old, new) ==
    IF old = {} THEN new
    ELSE LET o == CHOOSE x \in old : TRUE
         IN  [fields |-> new.fields,
              source |-> IF new.source # {} THEN new.source ELSE o.source,
              flag_duplicate |-> IF new.flag_duplicate # {} THEN new.flag_duplicate
                                 ELSE o.flag_duplicate]

VARIABLES
    receipts,      \* the receipt documents, by DocIds
    receiptCount,  \* batches/{b}.receiptCount
    blobs,         \* the image stored at each receipt's object path
    runs,          \* the pipeline invocations in flight (a bag of records)
    events,        \* document-update events not yet delivered (a bag)
    nUploads,      \* upload events delivered so far
    nRetries,      \* retry requests so far
    nResaves,      \* re-saves so far
    nFaults,       \* operations that raised so far
    lastFinalized, \* history: the run whose finalization was the last store change
    increments,    \* history: the increments made on behalf of each receipt
    file_path,     \* the object name of the upload event under dispatch
    dispatched,    \* whether that event has been handled
    client,        \* the locals of extract_receipt_data during one call of it
    fields,        \* two field sets handed to compute_receipt_hash, and the results
    abandoned      \* history: the runs the platform abandoned, and where

vars == <<receipts, receiptCount, blobs, runs, events, nUploads, nRetries,
          nResaves, nFaults, lastFinalized, increments, file_path, dispatched,
          client, fields, abandoned>>

\* ----------------------------------------------------------------- helpers
One(x) == SetToBag({x})
Replace(run, new) == runs' = (runs (-) One(run)) (+) One(new)
Finish(run) == runs' = runs (-) One(run)
InFlight == BagToSet(runs)

\* A write to receipt document d: the document-update trigger is notified of
\* every write to a document that already exists.
WriteDoc(d, new) ==
    /\ receipts' = [receipts EXCEPT ![d] = new]
    /\ events' = IF receipts[d].exists
                 THEN events (+) One([b |-> d.b, r |-> d.r,
                                      before |-> receipts[d].status,
                                      after |-> new.status])
                 ELSE events

\* A document-update event is delivered before anything else happens: the
\* handler reads the event alone, and the run it starts takes its first step
\* whenever it is scheduled.
Quiet == events = EmptyBag

Raise == /\ nFaults < MaxFaults
         /\ nFaults' = nFaults + 1

\* Receipts of d's batch, other than d, that hold the same image and are extracted.
SameBatchExtracted(d) ==
    {d2.r : d2 \in {x \in DocIds : /\ x.b = d.b
                                   /\ x # d
                                   /\ blobs[x] = blobs[d]
                                   /\ receipts[x].status = "extracted"}}

\* Some other receipt, in any batch, holds the same image and is extracted.
OtherExtracted(d) ==
    \E x \in DocIds : /\ x # d
                      /\ blobs[x] = blobs[d]
                      /\ receipts[x].status = "extracted"

\* The locals of process_receipt_extraction and _finalize_extraction at entry.
\* The g_ fields are history the properties read, not state of the code.
NewRun(b, r, trigger) ==
    [b |-> b, r |-> r, trigger |-> trigger, pc |-> "check",
     data |-> {}, receipt_hash |-> <<>>, is_duplicate |-> FALSE,
     duplicate_of |-> {}, was_extracted |-> FALSE, calls |-> 0, err |-> "",
     g_usable |-> FALSE,
     g_same |-> IF Doc(b, r) \in DocIds THEN SameBatchExtracted(Doc(b, r)) ELSE {},
     g_basis |-> {}, g_changed |-> FALSE, g_match |-> "unknown",
     g_wrote |-> FALSE, g_cause |-> "none", g_dedup_failed |-> FALSE]

\* ------------------------------------------------------------ the triggers
\* on_receipt_upload, lines 216-241.
on_receipt_upload(path) ==
    LET call == UploadDispatch(path)
    IN  runs' = IF call.invoke
                THEN runs (+) One(NewRun(call.batch_id, call.receipt_id, "upload"))
                ELSE runs

\* Line 410, with the test of the previous status left out (level-triggered).
RetryFires_Level(old_status, new_status) == new_status = "pending_retry"

\* Line 410: the status changed to pending_retry.
RetryFires(old_status, new_status) ==
    new_status = "pending_retry" /\ old_status # "pending_retry"

\* on_receipt_retry, lines 397-424, for one delivered event. The documents of
\* this store always hold fields, so the guards of lines 402 and 407 pass; the
\* stored path is the path the image was uploaded to.
on_receipt_retry(ev) ==
    /\ BagIn(ev, events)
    /\ events' = events (-) One(ev)
    /\ runs' = IF RetryFires(ev.before, ev.after)
               THEN runs (+) One(NewRun(ev.b, ev.r, "retry"))
               ELSE runs
    /\ UNCHANGED <<receipts, receiptCount, blobs, nUploads, nRetries, nResaves, nFaults,
                   lastFinalized, file_path, client, fields, dispatched, increments, abandoned>>

\* ------------------------------------------------------------ the pipeline
\* Lines 295-297: the receipts of all batches whose stored image hash is h. The
\* query returns the first of them (limit(1)).
GlobalMatches(h) ==
    {x \in DocIds : receipts[x].exists /\ receipts[x].image_hash_sha256 = {h}}

\* Line 303 with the test of the status left out.
Usable_Any(existing_data) == TRUE

\* Line 303: the matched record can be reused.
Usable(existing_data) == existing_data.status = "extracted"

\* Lines 305-318 with the batch comparison of line 315 left out.
ReuseDecision_NoBatchCheck(existing_id, existing_data, batch_id) ==
    LET ed == CHOOSE x \in existing_data.extractedData : TRUE
    IN  [data |-> [ed EXCEPT !.source = {"cache_hit"}, !.flag_duplicate = {TRUE}],
         is_duplicate |-> TRUE,
         duplicate_of |-> {existing_id.r},
         basis |-> {existing_id.b}]

\* Lines 305-318: the copied data, tagged, and the duplicate decision of the
\* reuse path. basis is the batch of the record the decision rests on.
ReuseDecision(existing_id, existing_data, batch_id) ==
    LET ed == CHOOSE x \in existing_data.extractedData : TRUE
        same == existing_id.b = batch_id
    IN  [data |-> [ed EXCEPT !.source = {"cache_hit"},
                             !.flag_duplicate = IF same THEN {TRUE} ELSE @],
         is_duplicate |-> same,
         duplicate_of |-> IF same THEN {existing_id.r} ELSE {},
         basis |-> IF same THEN {existing_id.b} ELSE {}]

\* Lines 333-339: the receipts of the batch with the fingerprint, the current
\* receipt excluded. Of the two results the query is limited to, at least one
\* is another receipt when there is one, and the loop takes the first.
BatchDuplicates(batch_id, receipt_id, receipt_hash) ==
    {x \in DocIds : /\ x.b = batch_id
                    /\ receipts[x].exists
                    /\ receipts[x].receipt_hash = {receipt_hash}
                    /\ x.r # receipt_id}

\* Lines 363-376 with extractedData left out of the update.
FinalizeDoc_NoData(doc, data, img_hash, receipt_hash, is_duplicate, duplicate_of) ==
    [doc EXCEPT !.exists = TRUE, !.extracted = TRUE,
                !.receipt_hash = {receipt_hash},
                !.image_hash_sha256 = {img_hash},
                !.processedAt = TRUE,
                !.status = "extracted",
                !.flag_duplicate = {is_duplicate},
                !.duplicate_of = IF duplicate_of # {} THEN duplicate_of ELSE @]

\* Lines 363-376: the merge of update_data into the receipt document. data has
\* no receipt_hash key, so line 366 writes the argument, "" when not given.
FinalizeDoc(doc, data, img_hash, receipt_hash, is_duplicate, duplicate_of) ==
    [doc EXCEPT !.exists = TRUE, !.extracted = TRUE,
                !.extractedData = {MergeMap(@, data)},
                !.receipt_hash = {receipt_hash},
                !.image_hash_sha256 = {img_hash},
                !.processedAt = TRUE,
                !.status = "extracted",
                !.flag_duplicate = {is_duplicate},
                !.duplicate_of = IF duplicate_of # {} THEN duplicate_of ELSE @]

\* Lines 348-352 with the status of a retry request written in place of error.
ErrorDoc_PendingRetry(doc, msg) ==
    [doc EXCEPT !.exists = TRUE, !.status = "pending_retry",
                !.error_message = {msg}, !.processedAt = TRUE]

\* Lines 348-352 and 249-253: the merge of the error status.
ErrorDoc(doc, msg) ==
    [doc EXCEPT !.exists = TRUE, !.status = "error", !.error_message = {msg},
                !.processedAt = TRUE]

\* A field other than status, error_message and processedAt differs.
OtherFieldsDiffer(old, new) ==
    LET rest(doc) == [doc EXCEPT !.exists = TRUE, !.status = "none",
                                 !.error_message = {}, !.processedAt = FALSE]
    IN  rest(old) # rest(new)

\* An operation inside the try of line 274 raises: control goes to the handler
\* of line 346. g_cause records the operation that raised.
Fail(run, msg, op) ==
    /\ Raise
    /\ Replace(run, [run EXCEPT !.pc = "error", !.err = msg, !.g_cause = op])

\* Lines 278-323 up to the call of _finalize_extraction. The batch read and the
\* download ("read") and the image-hash query ("hash_query") may each raise,
\* and none is caught before line 346; the message str(e) is kept as "e"
\* whatever raised.
IdempotencyCheck(run) ==
    LET d == Doc(run.b, run.r)
        h == ImageHash(blobs[d])
        seen == [run EXCEPT !.g_usable = OtherExtracted(d),
                            !.g_same = @ \cap SameBatchExtracted(d)]
    IN  /\ Quiet
        /\ run.pc = "check"
        /\ \/ \E op \in {"read", "hash_query"} : Fail(run, "e", op)
           \/ /\ GlobalMatches(h) = {}
              /\ Replace(run, [seen EXCEPT !.pc = "extract", !.g_match = "none"])
              /\ UNCHANGED nFaults
           \/ /\ GlobalMatches(h) # {}
              /\ LET e == FirstByName(GlobalMatches(h))
                     got == [seen EXCEPT !.g_match = receipts[e].status]
                 IN
                 /\ IF Usable(receipts[e]) /\ receipts[e].extractedData = {}
                    THEN Replace(run, [got EXCEPT !.pc = "error", !.err = "e"])
                    ELSE IF Usable(receipts[e])
                    THEN LET dec == ReuseDecision(e, receipts[e], run.b)
                         IN  Replace(run, [got EXCEPT !.pc = "fin_read",
                                                       !.data = {dec.data},
                                                       !.is_duplicate = dec.is_duplicate,
                                                       !.duplicate_of = dec.duplicate_of,
                                                       !.g_basis = dec.basis])
                    ELSE Replace(run, [got EXCEPT !.pc = "extract"])
              /\ UNCHANGED nFaults
        /\ UNCHANGED <<receipts, receiptCount, blobs, events, nUploads, nRetries,
                       nResaves, lastFinalized, file_path, client, fields, dispatched, increments, abandoned>>

\* Lines 326-343: the provider call (extract_receipt_data raises when every
\* model failed), the fingerprint and the duplicate query of the batch, whose
\* failure is caught at line 340.
GeminiExtraction(run) ==
    /\ Quiet
    /\ run.pc = "extract"
    /\ \/ /\ Raise
          /\ Replace(run, [run EXCEPT !.pc = "error", !.calls = 1,
                                      !.err = "e", !.g_cause = "provider"])
       \/ \E out \in Outputs :
             LET receipt_hash == compute_receipt_hash(out)
                 found == BatchDuplicates(run.b, run.r, receipt_hash)
                 next(dup, of, basis) ==
                     Replace(run, [run EXCEPT !.pc = "fin_read", !.calls = 1,
                                              !.receipt_hash = receipt_hash,
                                              !.data = {FreshData(out, dup)},
                                              !.is_duplicate = dup,
                                              !.duplicate_of = of,
                                              !.g_basis = basis])
             IN  \/ /\ Raise
                    /\ Replace(run, [run EXCEPT !.pc = "fin_read", !.calls = 1,
                                                !.receipt_hash = receipt_hash,
                                                !.data = {FreshData(out, FALSE)},
                                                !.is_duplicate = FALSE,
                                                !.duplicate_of = {},
                                                !.g_basis = {},
                                                !.g_dedup_failed = TRUE])
                 \/ /\ found = {}
                    /\ next(FALSE, {}, {})
                    /\ UNCHANGED nFaults
                 \/ /\ found # {}
                    /\ next(TRUE, {FirstByName(found).r}, {FirstByName(found).b})
                    /\ UNCHANGED nFaults
    /\ UNCHANGED <<receipts, receiptCount, blobs, events, nUploads, nRetries,
                   nResaves, lastFinalized, file_path, client, fields, dispatched, increments, abandoned>>

\* _finalize_extraction, lines 357-361: the read of the receipt's own document.
FinalizeRead(run) ==
    LET d == Doc(run.b, run.r)
    IN  /\ Quiet
        /\ run.pc = "fin_read"
        /\ \/ Fail(run, "e", "own_read")
           \/ /\ Replace(run, [run EXCEPT !.pc = "fin_write",
                                          !.was_extracted = receipts[d].exists
                                                            /\ receipts[d].extracted])
              /\ UNCHANGED nFaults
        /\ UNCHANGED <<receipts, receiptCount, blobs, events, nUploads, nRetries,
                       nResaves, lastFinalized, file_path, client, fields, dispatched, increments, abandoned>>

\* _finalize_extraction, lines 363-381: the merge write of the receipt, done.
FinalizeWriteOk(run) ==
    LET d == Doc(run.b, run.r)
        data == CHOOSE x \in run.data : TRUE
        wrote == FinalizeDoc(receipts[d], data, ImageHash(blobs[d]), run.receipt_hash,
                             run.is_duplicate, run.duplicate_of)
        new == [wrote EXCEPT !.g_path = IF run.calls = 0 THEN "reuse" ELSE "fresh"]
        after == [run EXCEPT !.pc = "fin_incr", !.g_wrote = TRUE,
                             !.g_changed = OtherFieldsDiffer(receipts[d], new)]
    IN  /\ WriteDoc(d, new)
        /\ IF run.was_extracted THEN Finish(run) ELSE Replace(run, after)
        /\ lastFinalized' = {[b |-> run.b, r |-> run.r, trigger |-> run.trigger]}
        /\ UNCHANGED nFaults

\* _finalize_extraction, lines 363-381: the merge write of the receipt, which
\* may raise.
FinalizeWrite(run) ==
    /\ Quiet
    /\ run.pc = "fin_write"
    /\ \/ /\ Fail(run, "e", "receipt_write")
          /\ UNCHANGED <<receipts, events, lastFinalized>>
       \/ FinalizeWriteOk(run)
    /\ UNCHANGED <<receiptCount, blobs, nUploads, nRetries, nResaves, file_path, client, fields,
                   dispatched, increments, abandoned>>

\* _finalize_extraction, lines 381-385: the increment of the batch's counter.
FinalizeIncrement(run) ==
    /\ Quiet
    /\ run.pc = "fin_incr"
    /\ \/ /\ Fail(run, "e", "increment")
          /\ UNCHANGED <<receiptCount, increments, lastFinalized>>
       \/ /\ receiptCount' = [receiptCount EXCEPT ![run.b] = @ + 1]
          /\ increments' = [increments EXCEPT ![Doc(run.b, run.r)] = @ + 1]
          /\ lastFinalized' = {[b |-> run.b, r |-> run.r, trigger |-> run.trigger]}
          /\ Finish(run)
          /\ UNCHANGED nFaults
    /\ UNCHANGED <<receipts, blobs, events, nUploads, nRetries, nResaves, file_path, client, fields,
                   dispatched, abandoned>>

\* Lines 348-352: the error status, written.
ErrorWriteOk(run) ==
    /\ WriteDoc(Doc(run.b, run.r), ErrorDoc(receipts[Doc(run.b, run.r)], run.err))
    /\ Finish(run)
    /\ lastFinalized' = {}

\* process_receipt_extraction, lines 346-352: the error status. A failure of
\* this write (the first disjunct) escapes the function: the upload trigger
\* catches it (line 243), the retry trigger does not.
ErrorWrite(run) ==
    /\ Quiet
    /\ run.pc = "error"
    /\ \/ /\ IF run.trigger = "upload"
             THEN Replace(run, [run EXCEPT !.pc = "error_outer"])
             ELSE Finish(run)
          /\ UNCHANGED <<receipts, events, lastFinalized>>
       \/ ErrorWriteOk(run)
    /\ UNCHANGED <<receiptCount, blobs, nUploads, nRetries, nResaves, nFaults,
                   file_path, client, fields, dispatched, increments, abandoned>>

\* Lines 249-253: the error status of the upload trigger, written.
UploadErrorWriteOk(run) ==
    /\ WriteDoc(Doc(run.b, run.r),
                ErrorDoc(receipts[Doc(run.b, run.r)], "Upload trigger failed: e"))
    /\ Finish(run)
    /\ lastFinalized' = {}

\* on_receipt_upload, lines 243-255: the second attempt at the error status,
\* whose own failure (the first disjunct) is only logged.
UploadErrorWrite(run) ==
    /\ Quiet
    /\ run.pc = "error_outer"
    /\ \/ /\ Finish(run)
          /\ UNCHANGED <<receipts, events, lastFinalized>>
       \/ UploadErrorWriteOk(run)
    /\ UNCHANGED <<receiptCount, blobs, nUploads, nRetries, nResaves, nFaults,
                   file_path, client, fields, dispatched, increments, abandoned>>

\* ------------------------------------------------------------- environment
\* An upload event (first delivery or re-delivery) for a receipt's object.
Upload(d) ==
    /\ Quiet
    /\ nUploads < MaxUploads
    /\ BagCardinality(runs) < MaxInFlight
    /\ nUploads' = nUploads + 1
    /\ on_receipt_upload(DocPath(d))
    /\ UNCHANGED <<receipts, receiptCount, blobs, events, nRetries, nResaves, nFaults,
                   lastFinalized, file_path, client, fields, dispatched, increments, abandoned>>

\* The client asks for a retry: it sets the status to pending_retry.
UserRetry(d) ==
    /\ Quiet
    /\ nRetries < MaxRetries
    /\ BagCardinality(runs) < MaxInFlight
    /\ receipts[d].exists
    /\ receipts[d].status # "pending_retry"
    /\ nRetries' = nRetries + 1
    /\ WriteDoc(d, [receipts[d] EXCEPT !.status = "pending_retry"])
    /\ lastFinalized' = {}
    /\ UNCHANGED <<receiptCount, blobs, runs, nUploads, nResaves, nFaults, file_path, client, fields,
                   dispatched, increments, abandoned>>

\* The client saves again a document that waits for its retry, changing a
\* field the pipeline does not read.
UserResave(d) ==
    /\ Quiet
    /\ nResaves < MaxResaves
    /\ receipts[d].exists
    /\ receipts[d].status = "pending_retry"
    /\ nResaves' = nResaves + 1
    /\ WriteDoc(d, receipts[d])
    /\ lastFinalized' = {}
    /\ UNCHANGED <<receiptCount, blobs, runs, nUploads, nRetries, nFaults, file_path, client, fields,
                   dispatched, increments, abandoned>>

\* The two variables below are used by the specifications of
\* extract_receipt_data and compute_receipt_hash alone.
NoClient == <<>>
NoFields == <<>>

Init ==
    /\ receipts = [d \in DocIds |-> NoDoc]
    /\ receiptCount = [b \in Batches |-> 0]
    /\ blobs \in {f \in [DocIds -> Images] : f[Doc(B1, R1)] = "imgA"}
    /\ runs = EmptyBag
    /\ events = EmptyBag
    /\ nUploads = 0
    /\ nRetries = 0
    /\ nResaves = 0
    /\ nFaults = 0
    /\ lastFinalized = {}
    /\ increments = [d \in DocIds |-> 0]
    /\ file_path = <<>>
    /\ dispatched = FALSE
    /\ abandoned = {}
    /\ client = NoClient
    /\ fields = NoFields

Next ==
    \/ \E d \in DocIds : Upload(d)
    \/ \E d \in DocIds : UserRetry(d)
    \/ \E d \in DocIds : UserResave(d)
    \/ \E ev \in BagToSet(events) : on_receipt_retry(ev)
    \/ \E run \in InFlight : IdempotencyCheck(run)
    \/ \E run \in InFlight : GeminiExtraction(run)
    \/ \E run \in InFlight : FinalizeRead(run)
    \/ \E run \in InFlight : FinalizeWrite(run)
    \/ \E run \in InFlight : FinalizeIncrement(run)
    \/ \E run \in InFlight : ErrorWrite(run)
    \/ \E run \in InFlight : UploadErrorWrite(run)

Spec == Init /\ [][Next]_vars

\* Runs that never overlap: an upload event is delivered, and a retry is asked
\* for, only when no run is in flight.
SeqNext ==
    \/ \E d \in DocIds : runs = EmptyBag /\ Upload(d)
    \/ \E d \in DocIds : runs = EmptyBag /\ UserRetry(d)
    \/ \E d \in DocIds : UserResave(d)
    \/ \E ev \in BagToSet(events) : on_receipt_retry(ev)
    \/ \E run \in InFlight : IdempotencyCheck(run)
    \/ \E run \in InFlight : GeminiExtraction(run)
    \/ \E run \in InFlight : FinalizeRead(run)
    \/ \E run \in InFlight : FinalizeWrite(run)
    \/ \E run \in InFlight : FinalizeIncrement(run)
    \/ \E run \in InFlight : ErrorWrite(run)
    \/ \E run \in InFlight : UploadErrorWrite(run)

SeqSpec == Init /\ [][SeqNext]_vars

\* The behaviours in which no operation raises: every run goes through to its
\* finalization.
FaultFreeNext ==
    \/ \E d \in DocIds : Upload(d)
    \/ \E d \in DocIds : UserRetry(d)
    \/ \E d \in DocIds : UserResave(d)
    \/ \E ev \in BagToSet(events) : on_receipt_retry(ev)
    \/ \E run \in InFlight : IdempotencyCheck(run) /\ nFaults' = nFaults
    \/ \E run \in InFlight : GeminiExtraction(run) /\ nFaults' = nFaults
    \/ \E run \in InFlight : FinalizeRead(run) /\ nFaults' = nFaults
    \/ \E run \in InFlight : FinalizeWrite(run) /\ nFaults' = nFaults
    \/ \E run \in InFlight : FinalizeIncrement(run) /\ nFaults' = nFaults

FaultFreeSpec == Init /\ [][FaultFreeNext]_vars

\* Line 212 (timeout_sec=300): the platform abandons an invocation where it
\* stands. What the run has written stays; nothing else is done. The record
\* kept is the run's position and the number of the upload event it served.
Abandon(run) ==
    /\ Quiet
    /\ Finish(run)
    /\ abandoned' = abandoned \cup {[b |-> run.b, r |-> run.r, pc |-> run.pc,
                                      n |-> nUploads]}
    /\ UNCHANGED <<receipts, receiptCount, blobs, events, nUploads, nRetries,
                   nResaves, nFaults, lastFinalized, increments, file_path,
                   dispatched, client, fields>>

\* Upload events delivered one at a time, each run either going through to its
\* finalization with no operation raising, or abandoned on the way.
AbandonNext ==
    \/ \E d \in DocIds : runs = EmptyBag /\ Upload(d)
    \/ \E run \in InFlight : IdempotencyCheck(run) /\ nFaults' = nFaults
    \/ \E run \in InFlight : GeminiExtraction(run) /\ nFaults' = nFaults
    \/ \E run \in InFlight : FinalizeRead(run) /\ nFaults' = nFaults
    \/ \E run \in InFlight : FinalizeWrite(run) /\ nFaults' = nFaults
    \/ \E run \in InFlight : FinalizeIncrement(run) /\ nFaults' = nFaults
    \/ \E run \in InFlight : Abandon(run)

AbandonSpec == Init /\ [][AbandonNext]_vars

\* An upload event delivered when no run is in flight, in behaviours long
\* enough for three receipts to be finalized one after the other.
SerialUpload(d) ==
    /\ Quiet
    /\ runs = EmptyBag
    /\ nUploads < MaxSerialUploads
    /\ nUploads' = nUploads + 1
    /\ on_receipt_upload(DocPath(d))
    /\ UNCHANGED <<receipts, receiptCount, blobs, events, nRetries, nResaves, nFaults,
                   lastFinalized, file_path, client, fields, dispatched, increments,
                   abandoned>>

\* Runs that never overlap and in which no operation raises.
SerialNext ==
    \/ \E d \in DocIds : SerialUpload(d)
    \/ \E d \in DocIds : runs = EmptyBag /\ UserRetry(d)
    \/ \E ev \in BagToSet(events) : on_receipt_retry(ev)
    \/ \E run \in InFlight : IdempotencyCheck(run) /\ nFaults' = nFaults
    \/ \E run \in InFlight : GeminiExtraction(run) /\ nFaults' = nFaults
    \/ \E run \in InFlight : FinalizeRead(run) /\ nFaults' = nFaults
    \/ \E run \in InFlight : FinalizeWrite(run) /\ nFaults' = nFaults
    \/ \E run \in InFlight : FinalizeIncrement(run) /\ nFaults' = nFaults

SerialSpec == Init /\ [][SerialNext]_vars

\* A step of the platform or of a run: the delivery of a pending event, or the
\* next operation of a run in flight.
Progress ==
    \/ \E ev \in BagToSet(events) : on_receipt_retry(ev)
    \/ \E run \in InFlight : IdempotencyCheck(run)
    \/ \E run \in InFlight : GeminiExtraction(run)
    \/ \E run \in InFlight : FinalizeRead(run)
    \/ \E run \in InFlight : FinalizeWrite(run)
    \/ \E run \in InFlight : FinalizeIncrement(run)
    \/ \E run \in InFlight : ErrorWrite(run)
    \/ \E run \in InFlight : UploadErrorWrite(run)

\* The platform delivers every pending event and every blocking operation of
\* a run returns or raises: a run in flight is not left standing for ever.
LiveSpec == SeqSpec /\ WF_vars(Progress)

\* The store and the triggers at rest, for the specifications of one function.
StoreIdle ==
    /\ receipts = [d \in DocIds |-> NoDoc]
    /\ receiptCount = [b \in Batches |-> 0]
    /\ blobs = [d \in DocIds |-> "imgA"]
    /\ runs = EmptyBag
    /\ events = EmptyBag
    /\ nUploads = 0
    /\ nRetries = 0
    /\ nResaves = 0
    /\ nFaults = 0
    /\ lastFinalized = {}
    /\ increments = [d \in DocIds |-> 0]
    /\ file_path = <<>>
    /\ dispatched = FALSE
    /\ abandoned = {}

StoreUnchanged ==
    UNCHANGED <<receipts, receiptCount, blobs, runs, events, nUploads, nRetries,
                nResaves, nFaults, lastFinalized, increments, file_path, dispatched, abandoned>>

\* ------------------------------------------------- compute_receipt_hash alone
\* Strings of at most MaxFieldLen characters over an alphabet.
StringsOver(alphabet) ==
    UNION {[1..n -> alphabet] : n \in 0..MaxFieldLen}

\* Field sets handed to compute_receipt_hash: the four fields of the
\* fingerprint and one field that is not part of it.
FieldSets ==
    [vendor : StringsOver({"A", "a", " ", "\t"}),
     total : {<<"1">>, <<"$", "1">>, <<"1", " ">>},
     date : {<<>>, <<"1">>},
     invoice_number : {<<"7">>},
     tax : {<<"0">>, <<"1">>}]

HashInit ==
    /\ StoreIdle
    /\ client = NoClient
    /\ fields \in {[a |-> x, b |-> x, hash_a |-> <<>>, hash_b |-> <<>>, done |-> FALSE] :
                      x \in FieldSets}

\* compute_receipt_hash applied to the field set and to another one.
Fingerprint ==
    /\ ~fields.done
    /\ \E y \in FieldSets :
          fields' = [a |-> fields.a, b |-> y,
                     hash_a |-> compute_receipt_hash(fields.a),
                     hash_b |-> compute_receipt_hash(y), done |-> TRUE]
    /\ client' = client
    /\ StoreUnchanged

HashNext == Fingerprint

HashSpec == HashInit /\ [][HashNext]_vars

\* ------------------------------------------------- extract_receipt_data alone
\* sub occurs in s (the operator "in" of Python on strings).
Contains(s, sub) ==
    \E i \in 0..(Len(s) - Len(sub)) : SubSeq(s, i + 1, i + Len(sub)) = sub

\* Line 94-97: the models, in order of preference.
models_to_try == <<"gemini-flash-latest", "gemini-flash-lite-latest">>

\* Line 103: range(3).
Attempts == 3

\* Line 157: the substrings that make an error retryable.
Keywords ==
    { <<"4", "2", "9">>,
      <<"r", "e", "s", "o", "u", "r", "c", "e", "_", "e", "x", "h", "a", "u", "s", "t", "e", "d">>,
      <<"r", "a", "t", "e">>,
      <<"q", "u", "o", "t", "a">>,
      <<"o", "v", "e", "r", "l", "o", "a", "d", "e", "d">>,
      <<"u", "n", "a", "v", "a", "i", "l", "a", "b", "l", "e">>,
      <<"5", "0", "3">>,
      <<"5", "0", "0">> }

\* Lines 155-157: is_retryable.
is_retryable(e) == \E kw \in Keywords : Contains(Lower(e), kw)

\* The exceptions a call may end with, as str(e) and as what they are: the
\* provider's rate limit (429), the provider's answer for a model it does not
\* serve (404, the message names the method generateContent), and the errors
\* json.loads raises at line 139 on malformed output, which carry the position
\* of the fault.
E429 == [msg |-> <<"4", "2", "9">>, kind |-> "transient"]
ENotFound == [msg |-> <<"4", "0", "4", " ", "g", "e", "n", "e", "r", "a", "t", "e", "C", "o", "n", "t", "e", "n", "t">>, kind |-> "permanent"]
EJson7 == [msg |-> <<"c", "h", "a", "r", " ", "7">>, kind |-> "malformed"]
EJson500 == [msg |-> <<"c", "h", "a", "r", " ", "5", "0", "0">>, kind |-> "malformed"]
Errors == {E429, ENotFound, EJson7, EJson500}

\* random.uniform(0, 1) at its two ends, in tenths of a second.
Jitters == {0, 10}

\* Line 106 with the exponent left out.
delay_Flat(attempt, jitter) == 2 * 10 + jitter

\* Line 106: (2 ** attempt) + random.uniform(0, 1), in tenths of a second.
delay(attempt, jitter) == (2 ^ attempt) * 10 + jitter

\* The locals of extract_receipt_data. log is history: one entry per provider
\* call, with the sleep that preceded it (none, or its length) and the
\* exception it ended with (none when it returned).
ClientInit ==
    /\ StoreIdle
    /\ fields = NoFields
    /\ client \in {[api_key |-> k, pc |-> "start", model |-> 1, attempt |-> 0,
                     last_error |-> {}, log |-> <<>>, result |-> "none"] :
                    k \in BOOLEAN}

\* Lines 84-99: the key is read; without it the function raises ValueError.
ClientStart ==
    /\ client.pc = "start"
    /\ client' = IF client.api_key
                 THEN [client EXCEPT !.pc = "attempt"]
                 ELSE [client EXCEPT !.pc = "done", !.result = "ValueError"]
    /\ fields' = fields
    /\ StoreUnchanged

\* Lines 153-164 with the outer loop left out: no model after the first.
AfterError_NoFallback(c, e) ==
    LET failed == [c EXCEPT !.last_error = {e}]
    IN  IF is_retryable(e.msg) /\ c.attempt < Attempts - 1
        THEN [failed EXCEPT !.attempt = @ + 1]
        ELSE [failed EXCEPT !.pc = "done", !.result = "RuntimeError"]

\* Lines 153-164 and the two loop headers: what follows an exception e.
AfterError(c, e) ==
    LET failed == [c EXCEPT !.last_error = {e}]
    IN  IF is_retryable(e.msg) /\ c.attempt < Attempts - 1
        THEN [failed EXCEPT !.attempt = @ + 1]
        ELSE IF c.model < Len(models_to_try)
        THEN [failed EXCEPT !.model = @ + 1, !.attempt = 0]
        ELSE [failed EXCEPT !.pc = "done", !.result = "RuntimeError"]

\* Lines 103-164: one turn of the inner loop. The sleep of a retry, the call,
\* and either the return of the record or the handling of the exception.
ClientAttempt ==
    /\ client.pc = "attempt"
    /\ \E jitter \in Jitters, outcome \in {{}} \cup {{e} : e \in Errors} :
          LET slept == IF client.attempt > 0
                       THEN {delay(client.attempt, jitter)} ELSE {}
              entry == [model |-> models_to_try[client.model],
                        attempt |-> client.attempt, slept |-> slept,
                        error |-> outcome]
              called == [client EXCEPT !.log = Append(@, entry)]
          IN  /\ client.attempt = 0 => jitter = 0
              /\ client' = IF outcome = {}
                           THEN [called EXCEPT !.pc = "done", !.result = "record"]
                           ELSE AfterError(called, CHOOSE e \in outcome : TRUE)
    /\ fields' = fields
    /\ StoreUnchanged

ClientNext == ClientStart \/ ClientAttempt

ClientSpec == ClientInit /\ [][ClientNext]_vars

\* ------------------------------------------- the upload trigger on any path
RECEIPTS == <<"r", "e", "c", "e", "i", "p", "t", "s">>
SegPool ==
    { RECEIPTS,
      <<"R", "e", "c", "e", "i", "p", "t", "s">>,
      B1,
      <<>>,
      R1 \o <<".", "j", "p", "g">>,
      R1 \o <<".", "J", "P", "G">>,
      R1 \o <<".", "p", "n", "g">>,
      R1 \o <<".", "W", "e", "b", "P">>,
      R1 \o <<".", "t", "x", "t">>,
      R1 }
Paths ==
    { Join(segs, <<"/">>) : segs \in UNION {[1..n -> SegPool] : n \in 1..MaxSegs} }

DispatchInit ==
    /\ receipts = [d \in DocIds |-> NoDoc]
    /\ receiptCount = [b \in Batches |-> 0]
    /\ blobs = [d \in DocIds |-> "imgA"]
    /\ runs = EmptyBag
    /\ events = EmptyBag
    /\ nUploads = 0
    /\ nRetries = 0
    /\ nResaves = 0
    /\ nFaults = 0
    /\ lastFinalized = {}
    /\ increments = [d \in DocIds |-> 0]
    /\ file_path \in Paths
    /\ dispatched = FALSE
    /\ abandoned = {}
    /\ client = NoClient
    /\ fields = NoFields

\* The upload trigger handles the event, up to its call of the pipeline.
UploadEvent ==
    /\ ~dispatched
    /\ dispatched' = TRUE
    /\ on_receipt_upload(file_path)
    /\ UNCHANGED <<receipts, receiptCount, blobs, events, nUploads, nRetries, nResaves,
                   nFaults, lastFinalized, increments, file_path, client, fields, abandoned>>

DispatchNext == UploadEvent

DispatchSpec == DispatchInit /\ [][DispatchNext]_vars

\* ------------------------------------------------------------------ claims
RunsOf(d) == {run \in InFlight : Doc(run.b, run.r) = d}
ExtractedIn(b) == {d \in DocIds : d.b = b /\ receipts[d].extracted}

\* C1: with no run in flight, whatever the interleaving of the runs was, a
\* batch's receiptCount is the number of its receipts that were ever finalized
\* as extracted.
C1_CountIsFinalizedReceipts ==
    (runs = EmptyBag /\ Quiet) =>
        \A b \in Batches : receiptCount[b] = Cardinality(ExtractedIn(b))

\* C2: over runs of a receipt that do not overlap, the counter is incremented
\* exactly once for the receipt: never twice, and once as soon as a run that
\* finalized it as extracted has ended.
C2_IncrementedExactlyOnce ==
    \A d \in DocIds :
        /\ increments[d] <= 1
        /\ (RunsOf(d) = {} /\ receipts[d].extracted) => increments[d] = 1

\* C3: when an upload-triggered run finalizes a receipt whose own finalization
\* by an upload-triggered run was the last change of the store, the receipt's
\* extractedData stays what that first run wrote.
C3_SecondRunKeepsData ==
    [][\A run \in InFlight :
          (/\ run.pc = "fin_write"
           /\ run.trigger = "upload"
           /\ lastFinalized = {[b |-> run.b, r |-> run.r, trigger |-> "upload"]}
           /\ FinalizeWriteOk(run))
          => receipts'[Doc(run.b, run.r)].extractedData
                 = receipts[Doc(run.b, run.r)].extractedData]_vars

\* C4 as stated: a receipt has extractedData exactly when its status is extracted.
C4_DataIffStatusExtracted ==
    \A d \in DocIds :
        receipts[d].extractedData # {} <=> receipts[d].status = "extracted"

\* C4 as amended: a receipt whose status is extracted has extractedData, and a
\* receipt has extractedData exactly when it was ever finalized (its extracted
\* flag is set), whatever its status has become since.
C4_DataIffEverFinalized ==
    \A d \in DocIds :
        /\ receipts[d].status = "extracted" => receipts[d].extractedData # {}
        /\ receipts[d].extractedData # {} <=> receipts[d].extracted

\* A receipt in error, or waiting for its retry, that keeps its extractedData.
C4_Witness ==
    \E d \in DocIds :
        /\ receipts[d].status \in {"error", "pending_retry"}
        /\ receipts[d].extractedData # {}

\* C5: a run whose idempotency check ran while another receipt with the same
\* image was extracted calls no provider and finalizes with the cache_hit marker.
C5_ExtractedTwinMeansReuse ==
    \A run \in InFlight :
        run.g_usable =>
            /\ run.calls = 0
            /\ \A x \in run.data : x.source = {"cache_hit"}

\* C6: a run that started, and checked, while another receipt of its batch with
\* the same image was extracted finalizes its receipt as a duplicate of a
\* receipt of the batch that holds the image.
C6_SameBatchTwinFlagged ==
    [][\A run \in InFlight :
          (run.pc = "fin_write" /\ run.g_same # {} /\ FinalizeWriteOk(run)) =>
              LET d == Doc(run.b, run.r)
              IN  /\ receipts'[d].flag_duplicate = {TRUE}
                  /\ receipts'[d].duplicate_of # {}
                  /\ \A x \in receipts'[d].duplicate_of :
                        /\ x # run.r
                        /\ Doc(run.b, x) \in DocIds
                        /\ blobs[Doc(run.b, x)] = blobs[d]]_vars

\* C7: a duplicate decision rests on a record of the run's own batch, and a
\* receipt flagged as a duplicate names a receipt document of its own batch.
C7_DuplicatesStayInBatch ==
    /\ \A run \in InFlight : run.is_duplicate => run.g_basis = {run.b}
    /\ \A d \in DocIds :
          receipts[d].flag_duplicate = {TRUE} =>
              \E x \in DocIds : /\ x.b = d.b
                                /\ receipts[d].duplicate_of = {x.r}
                                /\ receipts[x].exists

\* A receipt finalized from the record of a receipt of another batch, the only
\* record with its image: reused, and not flagged as a duplicate.
C7_Witness ==
    \E d \in DocIds, x \in DocIds :
        /\ x.b # d.b
        /\ blobs[x] = blobs[d]
        /\ receipts[x].status = "extracted"
        /\ receipts[d].status = "extracted"
        /\ \E data \in receipts[d].extractedData : data.source = {"cache_hit"}
        /\ receipts[d].flag_duplicate = {FALSE}
        /\ receipts[d].duplicate_of = {}

\* C8: a run that ends by writing status error leaves receiptCount as it is and
\* has changed no field of its receipt other than status, error_message and
\* processedAt.
C8_ErrorRunChangedNothingElse ==
    [][\A run \in InFlight :
          (\/ run.pc = "error" /\ ErrorWriteOk(run)
           \/ run.pc = "error_outer" /\ UploadErrorWriteOk(run))
          => /\ ~run.g_changed
             /\ ~OtherFieldsDiffer(receipts[Doc(run.b, run.r)],
                                   receipts'[Doc(run.b, run.r)])
             /\ receiptCount' = receiptCount]_vars

\* C9: the delivery of a document-update event starts a run, for the event's
\* receipt, exactly when the status after is pending_retry and the status
\* before is not; otherwise it starts none.
C9_RetryIsEdgeTriggered ==
    [][\A ev \in BagToSet(events) :
          events' = events (-) One(ev) =>
              IF ev.after = "pending_retry" /\ ev.before # "pending_retry"
              THEN runs' = runs (+) One(NewRun(ev.b, ev.r, "retry"))
              ELSE runs' = runs]_vars

\* A retry has started its run and a re-save of the waiting document has been
\* delivered: one run is in flight, not two.
C9_Witness ==
    /\ nRetries = 1
    /\ nResaves = 1
    /\ Quiet
    /\ BagCardinality(runs) = 1
    /\ \E run \in InFlight : run.trigger = "retry"

\* The form receipts/{batchId}/{receiptId}.{ext}.
WellFormed(path) ==
    LET segs == Split(path)
    IN  /\ Len(segs) = 3
        /\ segs[1] = RECEIPTS
        /\ segs[2] # <<>>
        /\ Positions(segs[3], ".") # {}
        /\ LET dot == SetMax(Positions(segs[3], "."))
           IN  /\ dot > 1
               /\ Lower(SubSeq(segs[3], dot, Len(segs[3]))) \in ImageSuffixes

\* C10: the upload trigger starts a run, with the path's batchId and receiptId,
\* for a path of the form receipts/{batchId}/{receiptId}.{ext}, and for no other
\* path.
C10_OnlyWellFormedPathsRun ==
    dispatched =>
        IF WellFormed(file_path)
        THEN LET segs == Split(file_path)
                 dot == SetMax(Positions(segs[3], "."))
             IN  runs = One(NewRun(segs[2], SubSeq(segs[3], 1, dot - 1), "upload"))
        ELSE runs = EmptyBag

\* C11: a run that ends has written status extracted or status error to its
\* receipt: its last step is such a write, or its finalize write was made before.
C11_EveryRunWritesAStatus ==
    [][\A run \in InFlight :
          runs' = runs (-) One(run) =>
              \/ run.g_wrote
              \/ run.pc = "fin_write" /\ FinalizeWriteOk(run)
              \/ run.pc = "error" /\ ErrorWriteOk(run)
              \/ run.pc = "error_outer" /\ UploadErrorWriteOk(run)]_vars

\* C12: an extracted receipt carries source = cache_hit exactly when its most
\* recent finalization took the reuse path.
C12_MarkerIffLastRunReused ==
    \A d \in DocIds :
        receipts[d].status = "extracted" =>
            \A data \in receipts[d].extractedData :
                data.source = {"cache_hit"} <=> receipts[d].g_path = "reuse"

\* C14: a run holds copied data without a provider call only when the record
\* its lookup returned was extracted; when the record had another status, the
\* run reaches its finalization with one provider call and the provider's data.
C14_ReuseOnlyFromExtracted ==
    \A run \in InFlight :
        /\ (run.calls = 0 /\ run.data # {}) => run.g_match = "extracted"
        /\ (/\ run.g_match \notin {"unknown", "extracted"}
            /\ run.pc \in {"fin_read", "fin_write", "fin_incr"})
           => /\ run.calls = 1
              /\ \A data \in run.data : data.source = {} /\ data.fields \in Outputs

\* A run whose lookup returned a record in error, about to finalize the data
\* of its own provider call.
C14_Witness ==
    \E run \in InFlight :
        /\ run.g_match = "error"
        /\ run.pc = "fin_write"
        /\ run.calls = 1

\* A string without the characters of a set.
RECURSIVE Without(_, _)
Without(s, chars) ==
    IF Len(s) = 0 THEN s
    ELSE IF s[1] \in chars THEN Without(Tail(s), chars)
    ELSE <<s[1]>> \o Without(Tail(s), chars)

\* The four fields of the fingerprint are the same once whitespace, letter
\* case and, in the amount, the currency sign are taken out.
SameButFormatting(x, y) ==
    /\ Lower(Without(x.vendor, WhiteSpace)) = Lower(Without(y.vendor, WhiteSpace))
    /\ Without(x.total, WhiteSpace \cup {"$"}) = Without(y.total, WhiteSpace \cup {"$"})
    /\ Lower(Without(x.date, WhiteSpace)) = Lower(Without(y.date, WhiteSpace))
    /\ Lower(Without(x.invoice_number, WhiteSpace))
           = Lower(Without(y.invoice_number, WhiteSpace))

\* C13: two field sets whose vendor, total, date and invoice number differ only
\* in letter case, whitespace or currency formatting (whatever their other
\* fields are) get the same fingerprint.
C13_FormattingDoesNotChangeFingerprint ==
    (fields # NoFields /\ fields.done /\ SameButFormatting(fields.a, fields.b))
        => fields.hash_a = fields.hash_b

\* The calls made to model number i, in order.
CallsTo(i) == SelectSeq(client.log, LAMBDA en : en.model = models_to_try[i])

\* The client is done with model number i.
MovedPast(i) == client.model > i \/ client.pc = "done"

\* The models are called in the order of the list.
InListOrder ==
    \A j, k \in 1..Len(client.log) :
        (j < k /\ client.log[j].model = models_to_try[2])
            => client.log[k].model = models_to_try[2]

\* C15: when every call to a model failed with an error classified transient
\* and the client is done with the model, it called the model exactly 3 times,
\* slept before the second and the third call and not before the first, the
\* second sleep longer than the first, and called no other model in between.
C15_ThreeCallsWithGrowingDelay ==
    /\ InListOrder
    /\ \A i \in 1..Len(models_to_try) :
          LET cs == CallsTo(i)
          IN  (/\ Len(cs) > 0
               /\ MovedPast(i)
               /\ \A k \in 1..Len(cs) :
                     /\ cs[k].error # {}
                     /\ \A e \in cs[k].error : is_retryable(e.msg))
              => /\ Len(cs) = 3
                 /\ cs[1].slept = {}
                 /\ cs[2].slept # {}
                 /\ cs[3].slept # {}
                 /\ \A a \in cs[2].slept, b \in cs[3].slept : a < b

\* The first model was called three times, rate-limited each time, and the
\* second model then returned a record.
C15_Witness ==
    /\ client.result = "record"
    /\ Len(client.log) = 4
    /\ \A k \in 1..3 : client.log[k].error = {E429}

\* C16: after a call that failed with an error that is not transient (malformed
\* output included), the model is not called again, and the next call, to the
\* next model, is made without a sleep.
C16_NonTransientMeansNextModel ==
    \A k \in 1..Len(client.log) :
        (\E e \in client.log[k].error : e.kind # "transient") =>
            IF k < Len(client.log)
            THEN /\ client.log[k + 1].model # client.log[k].model
                 /\ client.log[k + 1].slept = {}
            ELSE client.pc = "done" \/ client.attempt = 0

\* At most 6 calls, at most 3 to a model, in the order of the list, the
\* second model only after a failed call to the first; a record is returned
\* only by a call that succeeded.
CallsBounded ==
    /\ Len(client.log) <= 6
    /\ \A i \in 1..Len(models_to_try) : Len(CallsTo(i)) <= 3
    /\ InListOrder
    /\ Len(CallsTo(2)) > 0 =>
          /\ Len(CallsTo(1)) > 0
          /\ \A k \in 1..Len(CallsTo(1)) : CallsTo(1)[k].error # {}
    /\ client.result = "record" =>
          /\ Len(client.log) > 0
          /\ client.log[Len(client.log)].error = {}

\* C17 as stated: the calls are bounded as above and the function fails only
\* after every model of the list has been called.
C17_FailsOnlyAfterEveryModel ==
    /\ CallsBounded
    /\ client.result \in {"ValueError", "RuntimeError"} =>
          \A i \in 1..Len(models_to_try) : Len(CallsTo(i)) > 0

\* C17 as amended: the calls are bounded as above; with the API key set the
\* function fails (RuntimeError) only after every model of the list has been
\* called; without the key it fails (ValueError) before any call.
C17_FailsAfterEveryModelOrForNoKey ==
    /\ CallsBounded
    /\ client.result = "RuntimeError" =>
          /\ client.api_key
          /\ \A i \in 1..Len(models_to_try) : Len(CallsTo(i)) > 0
    /\ client.result = "ValueError" => ~client.api_key /\ client.log = <<>>
    /\ (client.pc = "done" /\ ~client.api_key) => client.result = "ValueError"

\* The function has failed after 3 calls to each of the two models.
C17_Witness ==
    /\ client.result = "RuntimeError"
    /\ Len(client.log) = 6

\* C18: a failure of the image-hash query or of the fingerprint query of the
\* batch counts as "no match": no run is sent to the error handler by either
\* query, and a run whose fingerprint query failed goes on to finalization with
\* flag_duplicate false.
C18_QueryFailureMeansNoMatch ==
    \A run \in InFlight :
        /\ run.g_cause \notin {"hash_query", "dedup_query"}
        /\ run.g_dedup_failed =>
              /\ run.pc \in {"fin_read", "fin_write", "fin_incr", "error", "error_outer"}
              /\ ~run.is_duplicate
              /\ \A x \in run.data : x.flag_duplicate = {FALSE}

\* The transitions of a receipt's persisted status in the state machine of the
\* specification; "none" is the status of a document that does not exist.
Transitions ==
    {<<"none", "extracted">>, <<"none", "error">>,
     <<"extracted", "pending_retry">>, <<"error", "pending_retry">>,
     <<"pending_retry", "extracted">>, <<"pending_retry", "error">>}

\* C19: every change of a receipt's persisted status is a transition of the
\* state machine; no step changes extracted to error or error to extracted.
C19_StatusFollowsStateMachine ==
    [][\A d \in DocIds :
          receipts'[d].status # receipts[d].status =>
              <<receipts[d].status, receipts'[d].status>> \in Transitions]_vars

\* The documents one uninterrupted successful run leaves for receipt d in a
\* store that holds no other receipt (the history field left aside).
UninterruptedRun(d) ==
    {FinalizeDoc(NoDoc, FreshData(out, FALSE), ImageHash(blobs[d]),
                 compute_receipt_hash(out), FALSE, {}) : out \in Outputs}

\* The first upload event was for receipt d, its run was abandoned, the event
\* was delivered again and that run has ended; no other receipt is stored.
RedeliveredAfterAbandon(d) ==
    /\ nUploads = 2
    /\ runs = EmptyBag
    /\ \E a \in abandoned : /\ abandoned = {a}
                            /\ a.b = d.b /\ a.r = d.r /\ a.n = 1
    /\ \A x \in DocIds \ {d} : ~receipts[x].exists

\* C20: after an abandoned run and the completed run of the re-delivered
\* event, the receipt and the batch's counter are what one uninterrupted run
\* leaves: the counter is 1 and the document is the fresh extraction.
C20_RedeliveryConverges ==
    \A d \in DocIds :
        RedeliveredAfterAbandon(d) =>
            /\ receiptCount[d.b] = 1
            /\ [receipts[d] EXCEPT !.g_path = "none"] \in UninterruptedRun(d)

\* C21: no receipt is flagged as the duplicate of itself: duplicate_of is
\* never the receipt's own identifier.
C21_NoSelfDuplicate ==
    \A d \in DocIds : receipts[d].duplicate_of # {d.r}

\* export.py line 110: the Duplicate column of the report,
\* ext.get("flag_duplicate", False) with ext = data.get("extractedData", {}).
ExportDuplicate(doc) ==
    IF doc.extractedData = {} THEN FALSE
    ELSE LET ext == CHOOSE x \in doc.extractedData : TRUE
         IN  IF ext.flag_duplicate = {} THEN FALSE
             ELSE CHOOSE v \in ext.flag_duplicate : TRUE

\* C22: the duplicate flag the report reads is the receipt's top-level
\* flag_duplicate, for every receipt that has one.
C22_ExportFlagIsTopLevelFlag ==
    \A d \in DocIds :
        receipts[d].flag_duplicate # {} =>
            receipts[d].flag_duplicate = {ExportDuplicate(receipts[d])}

\* C23: a receipt document has a duplicate_of field exactly when its
\* flag_duplicate is true.
C23_DuplicateOfIffFlagged ==
    \A d \in DocIds :
        receipts[d].duplicate_of # {} <=> receipts[d].flag_duplicate = {TRUE}

\* C24: every extracted receipt stores the fingerprint of its own
\* extractedData as receipt_hash, whichever path finalized it.
C24_StoredHashIsOwnFingerprint ==
    \A d \in DocIds :
        receipts[d].status = "extracted" =>
            \A x \in receipts[d].extractedData :
                receipts[d].receipt_hash = {compute_receipt_hash(x.fields)}

\* The runs in flight started by the retry trigger.
RetryRunsInFlight ==
    LET S == {run \in InFlight : run.trigger = "retry"}
        RECURSIVE Sum(_)
        Sum(T) == IF T = {} THEN 0
                  ELSE LET x == CHOOSE y \in T : TRUE
                       IN  CopiesIn(x, runs) + Sum(T \ {x})
    IN  Sum(S)

\* A new event of a change of status to pending_retry is pending after the step.
NewRetryEvent ==
    \E ev \in BagToSet(events') :
        /\ CopiesIn(ev, events') > CopiesIn(ev, events)
        /\ ev.after = "pending_retry"
        /\ ev.before # "pending_retry"

\* C25: only a retry request of the client makes an event that fires the retry
\* trigger, never a write of the pipeline; the runs the trigger has in flight
\* are never more than the retry requests made; and once the external events
\* have stopped the system comes to rest with no event and no run pending.
C25_NoSelfSustainingRetry ==
    /\ [][NewRetryEvent => nRetries' = nRetries + 1 /\ runs' = runs]_vars
    /\ [](RetryRunsInFlight <= nRetries)
    /\ <>[](runs = EmptyBag /\ events = EmptyBag)

\* A retry request has been served by one run, which has written its status,
\* and the system is at rest.
C25_Witness ==
    /\ nRetries = 1
    /\ runs = EmptyBag
    /\ events = EmptyBag
    /\ \E d \in DocIds : /\ receipts[d].status \in {"extracted", "error"}
                         /\ lastFinalized = {[b |-> d.b, r |-> d.r, trigger |-> "retry"]}

\* C26: within a batch no two receipts are each flagged as the duplicate of
\* the other.
C26_NoDuplicateCycle ==
    \A d1, d2 \in DocIds :
        (d1 # d2 /\ d1.b = d2.b) =>
            ~ /\ receipts[d1].flag_duplicate = {TRUE}
              /\ receipts[d1].duplicate_of = {d2.r}
              /\ receipts[d2].flag_duplicate = {TRUE}
              /\ receipts[d2].duplicate_of = {d1.r}

====
